---- MODULE Spec2Model ----
(***************************************************************************)
(* Model of HEBO/hebo/design_space/design_space.py: class DesignSpace.     *)
(* The state is the fields of one DesignSpace object; there is one action  *)
(* per public method.  Tables (pandas DataFrame) are sequences of labelled *)
(* columns, tensors are sequences of unlabelled columns.                   *)
(***************************************************************************)
EXTENDS Integers, Sequences, FiniteSets, TLC

VARIABLES para_types, para_config, paras, para_names, numeric_names,
          enum_names, call, df, enc, dec, wellformed

vars == <<para_types, para_config, paras, para_names, numeric_names,
          enum_names, call, df, enc, dec, wellformed>>

(* ---------------------------- bounds ---------------------------------- *)
\* longest spec collection handed to one parse call
MaxSpecs == 2
\* parse is not called once the accumulated name lists would exceed this
MaxNames == 2
\* largest num_samples handed to sample
MaxRows == 2

(* ------------------------- input universes ---------------------------- *)
Names == {"a", "b"}
\* type tags that specs carry
SpecTags == {"num", "cat", "usr"}
\* type tags register_para_type is called with: a built-in one and a new one
RegTags == {"cat", "usr"}
\* constructors handed to register_para_type
RegClasses == {"NumericPara", "CategoricalPara"}
BuiltinTags == {"num", "pow", "pow_int", "int_exponent", "int", "step_int",
                "cat", "bool"}
Tags == BuiltinTags \cup SpecTags
Unbound == "unbound"
None == "None"

\* a ParameterSpec: the mapping handed to a constructor
Items == [name : Names, type : SpecTags]

RECURSIVE SeqsUpTo(_, _)
SeqsUpTo(S, n) ==
  IF n = 0 THEN {<<>>}
  ELSE LET shorter == SeqsUpTo(S, n - 1)
       IN shorter \cup {Append(s, x) : s \in {t \in shorter : Len(t) = n - 1}, x \in S}

SpecSeqs == SeqsUpTo(Items, MaxSpecs)

EmptyMap == [n \in {} |-> None]
\* the caller holds no table / tensor pair
NoValue == [ok |-> FALSE]

(* ------------------- the parameter-type collaborators ----------------- *)
\* constructor(spec): the parameter object built from a spec
Construct(cls, item) == [name |-> item.name, cls |-> cls]

IsCategorical(param) == param.cls = "CategoricalPara"

(* ------------------------------ registry ------------------------------ *)
\* a registration that keeps an existing binding (dict.setdefault)
RegisterKeepFirst(types, type_name, para_class) ==
  IF types[type_name] # Unbound THEN types
  ELSE [types EXCEPT ![type_name] = para_class]

\* self.para_types[type_name] = para_class
RegisterParaType(types, type_name, para_class) ==
  [types EXCEPT ![type_name] = para_class]

\* the registry built by __init__
BuiltinTypes ==
  LET t0 == [t \in Tags |-> Unbound]
      t1 == RegisterParaType(t0, "num", "NumericPara")
      t2 == RegisterParaType(t1, "pow", "PowPara")
      t3 == RegisterParaType(t2, "pow_int", "PowIntegerPara")
      t4 == RegisterParaType(t3, "int_exponent", "IntExponentPara")
      t5 == RegisterParaType(t4, "int", "IntegerPara")
      t6 == RegisterParaType(t5, "step_int", "StepIntPara")
      t7 == RegisterParaType(t6, "cat", "CategoricalPara")
  IN RegisterParaType(t7, "bool", "BoolPara")

(* ------------------------------- parse -------------------------------- *)
\* dict assignment d[k] = v
Put(d, k, v) == [x \in (DOMAIN d) \cup {k} |-> IF x = k THEN v ELSE d[x]]

\* a loop body that skips a spec with an unknown tag instead of failing
ParseItemSkipUnknown(st, item) ==
  IF st.types[item["type"]] = Unbound
  THEN [st EXCEPT !.done = @ + 1]
  ELSE LET param == Construct(st.types[item["type"]], item)
       IN [st EXCEPT !.paras = Put(@, param.name, param),
                     !.enum = IF IsCategorical(param) THEN Append(@, param.name) ELSE @,
                     !.numeric = IF IsCategorical(param) THEN @ ELSE Append(@, param.name),
                     !.built = @ + 1,
                     !.done = @ + 1]

\* one iteration of the for loop of parse (lines 67-73); `done` counts the
\* specs consumed, `built` the constructor calls, `err` the raised exception
ParseItem(st, item) ==
  IF st.types[item["type"]] = Unbound
  THEN [st EXCEPT !.err = "AssertionError"]
  ELSE LET param == Construct(st.types[item["type"]], item)
       IN [st EXCEPT !.paras = Put(@, param.name, param),
                     !.enum = IF IsCategorical(param) THEN Append(@, param.name) ELSE @,
                     !.numeric = IF IsCategorical(param) THEN @ ELSE Append(@, param.name),
                     !.built = @ + 1,
                     !.done = @ + 1]

RECURSIVE ParseLoop(_, _, _)
ParseLoop(st, rec, i) ==
  IF i > Len(rec) \/ st.err # None THEN st
  ELSE ParseLoop(ParseItem(st, rec[i]), rec, i + 1)

\* the state parse leaves behind, as a record of the object's fields
ParseResult(types, numeric, enum, rec) ==
  LET st0 == [types |-> types, paras |-> EmptyMap, para_names |-> <<>>,
              numeric |-> numeric, enum |-> enum,
              built |-> 0, done |-> 0, err |-> None]
      st1 == ParseLoop(st0, rec, 1)
  IN IF st1.err # None THEN st1
     ELSE [st1 EXCEPT !.para_names = st1.numeric \o st1.enum]

(* --------------------- parameter objects: behaviour ------------------- *)
\* float32 holds every integer up to 2^24 exactly
TwoTo24 == 16777216
\* cell values: a number (held as float64 or int) or a category label
Num(v) == [num |-> v]
Str(x) == [str |-> x]
IsNum(c) == DOMAIN c = {"num"}

Categories == <<"red", "blue">>
\* 2^24 + 1: the smallest positive integer float32 cannot hold
BigNative == TwoTo24 + 1
\* upper bound of the numeric parameters' domain
NumUb == 2 * TwoTo24
NumNative == {Num(3), Num(BigNative)}
CatNative == {Str(Categories[k]) : k \in 1..Len(Categories)}

\* the native domain param.sample draws from
Native(param) == IF IsCategorical(param) THEN CatNative ELSE NumNative

CodeOf(x) == (CHOOSE k \in 1..Len(Categories) : Categories[k] = x) - 1

\* param.transform on one native value
TransformValue(param, c) ==
  IF IsCategorical(param) THEN Num(CodeOf(c.str)) ELSE c

\* param.inverse_transform on one optimisation-domain value
InverseValue(param, c) ==
  IF IsCategorical(param) THEN Str(Categories[c.num + 1]) ELSE c

\* values param.inverse_transform accepts
InInverseDomain(param, c) ==
  /\ IsNum(c)
  /\ IsCategorical(param) => c.num \in 0..(Len(Categories) - 1)

\* param.transform / param.inverse_transform on a column; a value outside the
\* parameter's domain raises
ParamTransform(param, vals) ==
  IF \A k \in 1..Len(vals) : vals[k] \in Native(param)
  THEN [err |-> None, vals |-> [k \in 1..Len(vals) |-> TransformValue(param, vals[k])]]
  ELSE [err |-> "ValueError", vals |-> <<>>]

ParamInverse(param, vals) ==
  IF \A k \in 1..Len(vals) : InInverseDomain(param, vals[k])
  THEN [err |-> None, vals |-> [k \in 1..Len(vals) |-> InverseValue(param, vals[k])]]
  ELSE [err |-> "ValueError", vals |-> <<>>]

ParamOptLb(param) == 0
ParamOptUb(param) == IF IsCategorical(param) THEN Len(Categories) - 1 ELSE NumUb

(* --------------------------- numeric casts ---------------------------- *)
Int32Max == 2147483647

\* float64 -> float32 on a non-negative integer up to 2^25: 24 significant
\* bits, round half to even
F32(v) ==
  IF v <= TwoTo24 THEN v
  ELSE LET q == v \div 2
       IN IF v % 2 = 0 THEN v
          ELSE IF q % 2 = 0 THEN 2 * q ELSE 2 * (q + 1)

\* astype(int) then int32: an integral value inside the int32 range is kept;
\* the cells of this model never leave that range
I32(v) == IF -Int32Max <= v /\ v <= Int32Max THEN v ELSE v % Int32Max

(* ------------------------------- tables ------------------------------- *)
\* a DataFrame is [ok, rows, cols], cols a sequence of [name, vals];
\* a tensor pair is [ok, xc, xe], each block [rows, cols] with cols a
\* sequence of value sequences
RECURSIVE Flatten(_)
Flatten(ss) == IF ss = <<>> THEN <<>> ELSE Head(ss) \o Flatten(Tail(ss))

ColsOf(cols, name) == SelectSeq(cols, LAMBDA c : c.name = name)

\* data[names]: every column carrying each label, in the order of names
Select(cols, names) == Flatten([i \in 1..Len(names) |-> ColsOf(cols, names[i])])

HasAll(cols, names) == \A i \in 1..Len(names) : ColsOf(cols, names[i]) # <<>>

\* last position of name in names
LastIndex(names, name) ==
  CHOOSE i \in 1..Len(names) :
    names[i] = name /\ \A j \in (i + 1)..Len(names) : names[j] # name

AllKnown(names) == \A i \in 1..Len(names) : names[i] \in DOMAIN paras

(* ------------------------------- sample ------------------------------- *)
\* the table sample builds when each parameter's sample(num_samples)
\* returns draw[name]; a label absent from paras raises KeyError
SampleResult(num_samples, draw) ==
  IF ~AllKnown(para_names) THEN [err |-> "KeyError", df |-> NoValue]
  ELSE [err |-> None,
        df |-> [ok |-> TRUE,
                rows |-> IF para_names = <<>> THEN 0 ELSE num_samples,
                cols |-> [i \in 1..Len(para_names) |->
                            [name |-> para_names[i], vals |-> draw[para_names[i]]]]]]

(* ------------------------------ transform ----------------------------- *)
\* the per-column call of a loop: transform ("fwd") or inverse_transform
Apply(dir, param, vals) ==
  IF dir = "fwd" THEN ParamTransform(param, vals) ELSE ParamInverse(param, vals)

\* for i, name in enumerate(names): block[:, i] = f(paras[name], block[:, i])
LoopErr(block, names, dir) ==
  IF ~AllKnown(names) THEN "KeyError"
  ELSE IF \E i \in 1..Len(names) : Apply(dir, paras[names[i]], block[i]).err # None
       THEN "ValueError"
       ELSE None

LoopCols(block, names, dir) ==
  [j \in 1..Len(block) |->
     IF j <= Len(names) THEN Apply(dir, paras[names[j]], block[j]).vals ELSE block[j]]

AllNum(block) == \A j \in 1..Len(block) : \A k \in 1..Len(block[j]) : IsNum(block[j][k])

\* Tensor(block, dtype), dtype "float32" or "int32"
Cast(block, dtype) ==
  [j \in 1..Len(block) |->
     [k \in 1..Len(block[j]) |->
        Num(IF dtype = "float32" THEN F32(block[j][k].num) ELSE I32(block[j][k].num))]]

Vals(cols) == [j \in 1..Len(cols) |-> cols[j].vals]

Failed(e) == [err |-> e, enc |-> NoValue]

TransformResult(data) ==
  IF ~HasAll(data.cols, numeric_names) THEN Failed("KeyError")
  ELSE LET xc0 == Vals(Select(data.cols, numeric_names))
       IN IF ~AllNum(xc0) THEN Failed("ValueError")
          ELSE IF ~HasAll(data.cols, enum_names) THEN Failed("KeyError")
          ELSE LET xe0 == Vals(Select(data.cols, enum_names))
               IN IF LoopErr(xc0, numeric_names, "fwd") # None
                  THEN Failed(LoopErr(xc0, numeric_names, "fwd"))
                  ELSE IF LoopErr(xe0, enum_names, "fwd") # None
                  THEN Failed(LoopErr(xe0, enum_names, "fwd"))
                  ELSE LET xc1 == LoopCols(xc0, numeric_names, "fwd")
                           xe1 == LoopCols(xe0, enum_names, "fwd")
                       IN IF ~AllNum(xe1) THEN Failed("ValueError")
                          ELSE [err |-> None,
                                enc |-> [ok |-> TRUE,
                                         xc |-> [rows |-> data.rows, cols |-> Cast(xc1, "float32")],
                                         xe |-> [rows |-> data.rows, cols |-> Cast(xe1, "int32")]]]

(* -------------------------- inverse_transform ------------------------- *)
\* frame = DataFrame(columns=names); frame[name] = f(block[:, i]) in a loop:
\* every column labelled name takes the value of the last assignment to it
Rebuilt(block, names) ==
  [i \in 1..Len(names) |->
     [name |-> names[i],
      vals |-> ParamInverse(paras[names[i]], block[LastIndex(names, names[i])]).vals]]

InverseResult(x, xe) ==
  IF LoopErr(x.cols, numeric_names, "inv") # None
  THEN [err |-> LoopErr(x.cols, numeric_names, "inv"), df |-> NoValue]
  ELSE IF LoopErr(xe.cols, enum_names, "inv") # None
  THEN [err |-> LoopErr(xe.cols, enum_names, "inv"), df |-> NoValue]
  ELSE LET df_num == Rebuilt(x.cols, numeric_names)
           df_cat == Rebuilt(xe.cols, enum_names)
           both == df_num \o df_cat
           rows == IF both = <<>> THEN 0 ELSE x.rows
       IN IF ~HasAll(both, para_names) THEN [err |-> "KeyError", df |-> NoValue]
          ELSE [err |-> None,
                df |-> [ok |-> TRUE, rows |-> rows,
                        cols |-> Select(both, para_names)]]

(* ------------------------------- bounds ------------------------------- *)
\* one parameter's bound, which = "lb" or "ub"
ParamBound(which, param) ==
  IF which = "lb" THEN ParamOptLb(param) ELSE ParamOptUb(param)

BoundsResult(which) ==
  IF ~AllKnown(numeric_names) \/ ~AllKnown(enum_names)
  THEN [err |-> "KeyError", vals |-> <<>>]
  ELSE LET numeric == [i \in 1..Len(numeric_names) |-> ParamBound(which, paras[numeric_names[i]])]
           enum == [i \in 1..Len(enum_names) |-> ParamBound(which, paras[enum_names[i]])]
           all == numeric \o enum
       IN [err |-> None, vals |-> [i \in 1..Len(all) |-> F32(all[i])]]

(* ------------------------------ actions ------------------------------- *)
\* history: every parse call so far returned normally and was handed specs
\* with pairwise distinct names (the well-formed input of the data model)
DistinctNames(rec) ==
  \A i, j \in 1..Len(rec) : rec[i].name = rec[j].name => i = j

Init ==
  /\ para_types = BuiltinTypes
  /\ para_config = [set |-> FALSE, rec |-> <<>>]
  /\ paras = EmptyMap
  /\ para_names = <<>>
  /\ numeric_names = <<>>
  /\ enum_names = <<>>
  /\ call = [op |-> "init", err |-> None]
  /\ df = NoValue
  /\ enc = NoValue
  /\ dec = NoValue
  /\ wellformed = TRUE

Register ==
  \E type_name \in RegTags, para_class \in RegClasses :
    /\ para_types' = RegisterParaType(para_types, type_name, para_class)
    /\ call' = [op |-> "register_para_type", err |-> None,
                type_name |-> type_name, para_class |-> para_class]
    /\ df' = NoValue /\ enc' = NoValue /\ dec' = NoValue
    /\ UNCHANGED <<para_config, paras, para_names, numeric_names, enum_names, wellformed>>

Parse ==
  \E rec \in SpecSeqs :
    /\ Len(numeric_names) + Len(enum_names) + Len(rec) <= MaxNames
    /\ LET st == ParseResult(para_types, numeric_names, enum_names, rec)
       IN /\ para_config' = [set |-> TRUE, rec |-> rec]
          /\ paras' = st.paras
          /\ para_names' = st.para_names
          /\ numeric_names' = st.numeric
          /\ enum_names' = st.enum
          /\ para_types' = st.types
          /\ call' = [op |-> "parse", err |-> st.err, built |-> st.built,
                      failed_at |-> st.done + 1]
          /\ wellformed' = (wellformed /\ st.err = None /\ DistinctNames(rec))
    /\ df' = NoValue /\ enc' = NoValue /\ dec' = NoValue

\* the draws one parameter's sample(num_samples) can return
Draws(name, num_samples) ==
  IF name \in DOMAIN paras THEN [1..num_samples -> Native(paras[name])]
  ELSE {<<>>}

Sample ==
  \E num_samples \in 1..MaxRows :
    \E da \in Draws("a", num_samples), db \in Draws("b", num_samples) :
      /\ LET draw == [n \in Names |-> IF n = "a" THEN da ELSE db]
             r == SampleResult(num_samples, draw)
         IN /\ call' = [op |-> "sample", err |-> r.err, num_samples |-> num_samples]
            /\ df' = r.df
      /\ enc' = NoValue /\ dec' = NoValue
      /\ UNCHANGED <<para_types, para_config, paras, para_names, numeric_names, enum_names, wellformed>>

\* transform applied to the table sample returned
Transform ==
  /\ df.ok
  /\ LET r == TransformResult(df)
     IN /\ call' = [op |-> "transform", err |-> r.err]
        /\ enc' = r.enc
  /\ dec' = NoValue
  /\ UNCHANGED <<para_types, para_config, paras, para_names, numeric_names, enum_names, df, wellformed>>

\* inverse_transform applied to the pair transform returned
InverseTransform ==
  /\ enc.ok
  /\ LET r == InverseResult(enc.xc, enc.xe)
     IN /\ call' = [op |-> "inverse_transform", err |-> r.err]
        /\ dec' = r.df
  /\ UNCHANGED <<para_types, para_config, paras, para_names, numeric_names, enum_names, df, enc, wellformed>>

OptLb ==
  /\ LET r == BoundsResult("lb")
     IN call' = [op |-> "opt_lb", err |-> r.err, vals |-> r.vals]
  /\ df' = NoValue /\ enc' = NoValue /\ dec' = NoValue
  /\ UNCHANGED <<para_types, para_config, paras, para_names, numeric_names, enum_names, wellformed>>

OptUb ==
  /\ LET r == BoundsResult("ub")
     IN call' = [op |-> "opt_ub", err |-> r.err, vals |-> r.vals]
  /\ df' = NoValue /\ enc' = NoValue /\ dec' = NoValue
  /\ UNCHANGED <<para_types, para_config, paras, para_names, numeric_names, enum_names, wellformed>>

\* registry and parser alone
NextParse == Register \/ Parse

SpecParse == Init /\ [][NextParse]_vars

Next == Register \/ Parse \/ Sample \/ Transform \/ InverseTransform \/ OptLb \/ OptUb

Spec == Init /\ [][Next]_vars

(* ============================ properties ============================== *)
Range(q) == {q[i] : i \in 1..Len(q)}
NamesOf(rec) == [i \in 1..Len(rec) |-> rec[i].name]
ParseReturned == call.op = "parse" /\ call.err = None

\* the names of the specs of rec whose parameter, built with the registry
\* types, has is_categorical = cat, in input order
Classified(types, rec, cat) ==
  NamesOf(SelectSeq(rec, LAMBDA item :
            IsCategorical(Construct(types[item["type"]], item)) = cat))

\* the parameter the registry types builds for the last spec of rec named n
BuiltFor(types, rec, n) ==
  LET item == rec[LastIndex(NamesOf(rec), n)]
  IN Construct(types[item["type"]], item)

\* position of the first spec of rec whose tag the registry types lacks,
\* Len(rec) + 1 when there is none
FirstUnknown(types, rec) ==
  IF \E i \in 1..Len(rec) : types[rec[i]["type"]] = Unbound
  THEN CHOOSE i \in 1..Len(rec) :
         /\ types[rec[i]["type"]] = Unbound
         /\ \A j \in 1..(i - 1) : types[rec[j]["type"]] # Unbound
  ELSE Len(rec) + 1

\* C1: once a parse call has returned, paras and the three name lists hold
\* only names of the specs of that call, nothing left from an earlier parse.
C1_ParseReplacesWholesale ==
  (wellformed /\ ParseReturned) =>
     LET given == Range(NamesOf(para_config.rec))
     IN /\ DOMAIN paras \subseteq given
        /\ Range(para_names) \subseteq given
        /\ Range(numeric_names) \subseteq given
        /\ Range(enum_names) \subseteq given

\* C2: after construction and completed parse calls the names of para_names
\* are the keys of paras, numeric_names name non-categorical parameters and
\* enum_names name categorical ones.
C2_ListsConsistentWithParas ==
  wellformed =>
     /\ Range(para_names) = DOMAIN paras
     /\ \A i \in 1..Len(numeric_names) :
          numeric_names[i] \in DOMAIN paras /\ ~IsCategorical(paras[numeric_names[i]])
     /\ \A i \in 1..Len(enum_names) :
          enum_names[i] \in DOMAIN paras /\ IsCategorical(paras[enum_names[i]])

\* C3: after parse returns, para_names is numeric_names followed by
\* enum_names, numeric_names is the input's non-categorical names in input
\* order and enum_names the input's categorical names in input order.
C3_OrderPreserved ==
  (wellformed /\ ParseReturned) =>
     /\ para_names = numeric_names \o enum_names
     /\ numeric_names = Classified(para_types, para_config.rec, FALSE)
     /\ enum_names = Classified(para_types, para_config.rec, TRUE)

\* C4: no parameter name is in both numeric_names and enum_names.
C4_ListsDisjoint ==
  wellformed => Range(numeric_names) \cap Range(enum_names) = {}

\* C5: register_para_type binds the tag to the given constructor, also when
\* the tag was bound before, and changes no other binding; parse leaves the
\* registry as it was and builds every parameter with the constructor the
\* registry holds for its spec's tag.
C5_RegistryOverride ==
  [][ /\ call'.op = "register_para_type" =>
           /\ para_types'[call'.type_name] = call'.para_class
           /\ \A t \in Tags \ {call'.type_name} : para_types'[t] = para_types[t]
      /\ call'.op = "parse" =>
           /\ para_types' = para_types
           /\ LET seen == SubSeq(para_config'.rec, 1, call'.built)
              IN \A n \in DOMAIN paras' :
                   /\ n \in Range(NamesOf(seen))
                   /\ paras'[n] = BuiltFor(para_types, seen, n)
    ]_vars

\* C5 witness: a re-parse has built a parameter for a spec tagged with the
\* built-in tag "cat" with the constructor registered over the built-in one.
C5_Witness ==
  /\ ParseReturned
  /\ Len(numeric_names) + Len(enum_names) > Len(para_config.rec)
  /\ para_types["cat"] = "NumericPara"
  /\ \E i \in 1..Len(para_config.rec) :
       /\ para_config.rec[i]["type"] = "cat"
       /\ paras[para_config.rec[i].name].cls = "NumericPara"

\* C6: sample(n) on a parsed space returns a table of n rows whose columns
\* are para_names in order, each column a draw of the parameter stored under
\* its name.
C6_SampleColumns ==
  (wellformed /\ para_names # <<>> /\ call.op = "sample") =>
     /\ call.err = None
     /\ df.ok
     /\ df.rows = call.num_samples
     /\ [i \in 1..Len(df.cols) |-> df.cols[i].name] = para_names
     /\ \A i \in 1..Len(df.cols) :
          /\ Len(df.cols[i].vals) = call.num_samples
          /\ Range(df.cols[i].vals) \subseteq Native(paras[df.cols[i].name])

\* C7: opt_lb and opt_ub have length num_paras and element i is the bound of
\* the parameter stored under para_names[i].
C7_BoundsOrdering ==
  (wellformed /\ call.op \in {"opt_lb", "opt_ub"}) =>
     /\ call.err = None
     /\ Len(call.vals) = Len(para_names)
     /\ \A i \in 1..Len(para_names) :
          /\ para_names[i] \in DOMAIN paras
          /\ call.vals[i] = IF call.op = "opt_lb"
                            THEN ParamOptLb(paras[para_names[i]])
                            ELSE ParamOptUb(paras[para_names[i]])

\* every numeric cell of the table is a value float32 holds exactly
Float32Exact(data) ==
  \A i \in 1..Len(data.cols) : \A k \in 1..Len(data.cols[i].vals) :
    IsNum(data.cols[i].vals[k]) => data.cols[i].vals[k].num <= TwoTo24

\* C8: inverse_transform(*transform(table)) gives back the table: columns
\* para_names, the same rows, the original native value in every cell.
C8_RoundTrip ==
  (wellformed /\ call.op = "inverse_transform" /\ Float32Exact(df)) =>
     /\ call.err = None
     /\ dec.ok
     /\ [i \in 1..Len(dec.cols) |-> dec.cols[i].name] = para_names
     /\ dec = df

\* C9: transform returns a continuous block of num_numeric columns and a
\* categorical block of num_categorical columns, both with the rows of data,
\* and raises nothing.
C9_TransformShape ==
  (wellformed /\ call.op = "transform") =>
     /\ call.err = None
     /\ enc.ok
     /\ Len(enc.xc.cols) = Len(numeric_names)
     /\ Len(enc.xe.cols) = Len(enum_names)
     /\ enc.xc.rows = df.rows
     /\ enc.xe.rows = df.rows

\* C10: parse fails with an assertion error exactly when a spec carries a
\* tag the registry lacks; it stops at the first such spec having built only
\* the parameters of the specs before it, leaves the registry unchanged, and
\* paras and the name lists receive from this call only the specs before the
\* failing one.
C10_UnknownTagAborts ==
  [][ call'.op = "parse" =>
        LET rec == para_config'.rec
            k == FirstUnknown(para_types, rec)
            before == SubSeq(rec, 1, k - 1)
        IN /\ (call'.err # None) <=> (k <= Len(rec))
           /\ call'.err # None =>
                /\ call'.err = "AssertionError"
                /\ call'.failed_at = k
                /\ call'.built = k - 1
                /\ para_types' = para_types
                /\ DOMAIN paras' = Range(NamesOf(before))
                /\ \A n \in DOMAIN paras' : paras'[n] = BuiltFor(para_types, before, n)
                /\ numeric_names' = numeric_names \o Classified(para_types, before, FALSE)
                /\ enum_names' = enum_names \o Classified(para_types, before, TRUE)
                /\ Range(para_names') \subseteq Range(NamesOf(before))
    ]_vars

\* C10 witness: a parse call has failed at its second spec after committing
\* the parameter of the first.
C10_Witness ==
  /\ call.op = "parse"
  /\ call.err = "AssertionError"
  /\ call.failed_at = 2
  /\ DOMAIN paras = {para_config.rec[1].name}
  /\ Len(numeric_names) + Len(enum_names) >= 1
====
